---- MODULE Spec2Model ----
(***************************************************************************)
(* Model of the retrieval-augmented chat application: the process-wide     *)
(* cached vector-store handle (src/src/vector_store.py), the retriever     *)
(* (src/src/retrieval.py), the conversation composer (src/src/chat.py)     *)
(* and the Streamlit script that drives them per session (src/app.py,      *)
(* src/src/ui_components.py).                                              *)
(*                                                                         *)
(* Two browser sessions run the script against one process: they share     *)
(* the st.cache_resource cache and the PostgreSQL table, and each has its  *)
(* own st.session_state.  A handler is cut into steps at its calls to the  *)
(* database, so that the steps of two sessions interleave.                 *)
(***************************************************************************)
EXTENDS Naturals, Sequences, FiniteSets, TLC

\* ------------------------------------------------------------------ bounds
MaxRows == 3        \* rows the table holds at most, and top_n and initial_k of direct calls
MaxHandles == 2     \* handles created by get_vector_store
MaxOps == 3         \* user interactions (handlers started), over all sessions
TopNSpan == 0       \* slider positions above the minimum that are tried

\* ------------------------------------------------------- program constants
TopNMin == 3
InitialKMin == 10

\* ------------------------------------------------------------ value spaces
Sessions == {"s1", "s2"}
KeyNames == {"OPENAI_API_KEY", "COHERE_API_KEY"}
NoKey == "<unset>"
EnvKey == "env-key"
NoSource == "<no source>"
Queries == {"q1", "q2"}
\* The external service of a turn that fails, if any: the search (database or
\* embedding), the reranker or the language model.
Faults == {"none", "search", "rerank", "llm"}

cA == [source |-> "a.pdf", content |-> "alpha"]
cU == [source |-> "http://u", content |-> "beta"]
cN == [source |-> NoSource, content |-> "alpha"]

NoHandle == [id |-> 0, key |-> NoKey]
NoExc == [type |-> "none", msg |-> ""]
NoPrompt == <<>>
NoCall == [fn |-> "none"]
\* The credential each external service was called with; NoKey: not called.
NoKeys == [embed |-> NoKey, llm |-> NoKey, rerank |-> NoKey]
\* How a handler ended; while a clear runs, drop tells how its drop ended.
NoResult == [op |-> "none", status |-> "none", exc |-> NoExc, warned |-> FALSE,
             llm |-> "untouched", input |-> NoPrompt, handles |-> 0,
             keys |-> NoKeys, drop |-> "none", cleared |-> 0]

VARIABLES
    pgConn,        \* config.PG_CONNECTION_STRING is non-empty
    env,           \* os.getenv: key name -> value or NoKey
    tableExists,   \* the table VECTOR_TABLE_NAME exists in the database
    rows,          \* its rows, in insertion order
    cache,         \* st.cache_resource entry of get_vector_store, or NoHandle
    lock,          \* session computing get_vector_store on a cache miss, or ""
    nextId,        \* handles created so far
    session_state, \* per session: the API-key overrides
    messages,      \* per session: st.session_state.messages
    processed_sources, \* per session: st.session_state.processed_sources
    pc,            \* per session: the step the script run is at
    op,            \* per session: the handler that is running
    vector_store,  \* per session: the local variable vector_store
    docs,          \* per session: the local docs / relevant_docs
    prompt,        \* per session: the chat input of the turn
    result,        \* per session: how the last handler ended
    undisturbed,   \* sessions whose last clear no later write has followed
    ops,           \* user interactions so far
    call           \* the last direct call of a function, with its result

vars == <<pgConn, env, tableExists, rows, cache, lock, nextId, session_state,
          messages, processed_sources, pc, op, vector_store, docs, prompt,
          result, undisturbed, ops, call>>

store == <<tableExists, rows>>
shared == <<cache, lock, nextId>>
config == <<pgConn, env, call>>
locals == <<vector_store, docs, prompt>>

\* ----------------------------------------------------------------- helpers
Min(a, b) == IF a < b THEN a ELSE b

Take(s, n) == SubSeq(s, 1, Min(n, Len(s)))

Exc(type, msg) == [type |-> type, msg |-> msg]

DbError == Exc("OperationalError", "database unavailable")

MissingTable == Exc("ProgrammingError", "relation vectorstore does not exist")

\* raise ConnectionError(f"<prefix>: {str(e)}") from e
Wrapped(prefix, e) == Exc("ConnectionError", prefix \o ": " \o e.msg)

\* -------------------------------------------------- src/src/models.py

SessionKey(p) == "key-" \o p

\* get_api_key(key_name): the session override when truthy, else the
\* environment variable when truthy, else ValueError.
get_api_key(ss, key_name) ==
    IF ss[key_name] # NoKey
    THEN [ok |-> TRUE, value |-> ss[key_name], exc |-> NoExc]
    ELSE IF env[key_name] # NoKey
    THEN [ok |-> TRUE, value |-> env[key_name], exc |-> NoExc]
    ELSE [ok |-> FALSE, value |-> NoKey,
          exc |-> Exc("ValueError",
                      key_name \o " not found in session or environment variables")]

\* -------------------------------------------------- src/src/retrieval.py

\* The order in which the diversity-aware (MMR) search of the database ranks
\* the chunks for a query, and the order in which the reranking service does:
\* both are external and opaque, fixed per query here.
SearchOrder(q) == IF q = "q1" THEN <<cA, cU, cN>> ELSE <<cN, cU, cA>>

RerankOrder(q) == IF q = "q1" THEN <<cU, cN, cA>> ELSE <<cA, cN, cU>>

\* rs, stably sorted by the position of each chunk in order
SortedBy(order, rs) ==
    SelectSeq(rs, LAMBDA c : c = order[1])
        \o SelectSeq(rs, LAMBDA c : c = order[2])
        \o SelectSeq(rs, LAMBDA c : c = order[3])

\* Mutant: search_kwargs are not passed on, the retriever's own k applies.
MmrRetriever_DefaultK(vs, k) ==
    [kind |-> "mmr", store |-> vs, k |-> 4, top_n |-> 0, key |-> NoKey]

\* vector_store.as_retriever(search_type="mmr", search_kwargs={"k": k})
MmrRetriever(vs, k) ==
    [kind |-> "mmr", store |-> vs, k |-> k, top_n |-> 0, key |-> NoKey]

\* ContextualCompressionRetriever(CohereRerank(top_n, key), base_retriever)
RerankRetriever(vs, k, top_n, key) ==
    [kind |-> "rerank", store |-> vs, k |-> k, top_n |-> top_n, key |-> key]

\* Mutant: without a credential, the base retriever (initial_k) is returned.
get_retriever_with_reranking_BaseOnFallback(ss, vs, top_n, initial_k) ==
    LET cohere_api_key == IF ss["COHERE_API_KEY"] # NoKey
                          THEN ss["COHERE_API_KEY"]
                          ELSE env["COHERE_API_KEY"]
    IN  IF cohere_api_key = NoKey
        THEN [retriever |-> MmrRetriever(vs, initial_k), warning |-> TRUE]
        ELSE [retriever |-> RerankRetriever(vs, initial_k, top_n, cohere_api_key),
              warning |-> FALSE]

\* Mutant: the credential is read from the environment alone.
get_retriever_with_reranking_EnvOnly(ss, vs, top_n, initial_k) ==
    IF env["COHERE_API_KEY"] = NoKey
    THEN [retriever |-> MmrRetriever(vs, top_n), warning |-> TRUE]
    ELSE [retriever |-> RerankRetriever(vs, initial_k, top_n, env["COHERE_API_KEY"]),
          warning |-> FALSE]

get_retriever_with_reranking(ss, vs, top_n, initial_k) ==
    LET cohere_api_key == IF ss["COHERE_API_KEY"] # NoKey
                          THEN ss["COHERE_API_KEY"]
                          ELSE env["COHERE_API_KEY"]
    IN  IF cohere_api_key = NoKey
        THEN [retriever |-> MmrRetriever(vs, top_n), warning |-> TRUE]
        ELSE [retriever |-> RerankRetriever(vs, initial_k, top_n, cohere_api_key),
              warning |-> FALSE]

get_retriever(ss, vs, use_reranking, top_n, initial_k) ==
    IF ~use_reranking
    THEN [retriever |-> MmrRetriever(vs, top_n), warning |-> FALSE]
    ELSE get_retriever_with_reranking(ss, vs, top_n, initial_k)

\* The base search of a retriever: the k best rows of the table the handle
\* names; it fails when the table is missing or the database or the embedding
\* service does.
BaseSearch(r, q, searchOK) ==
    IF ~searchOK THEN [ok |-> FALSE, docs |-> <<>>, exc |-> DbError]
    ELSE IF ~tableExists
    THEN [ok |-> FALSE, docs |-> <<>>,
          exc |-> MissingTable]
    ELSE [ok |-> TRUE, docs |-> Take(SortedBy(SearchOrder(q), rows), r.k),
          exc |-> NoExc]

RerankError == Exc("ApiError", "rerank request failed")

\* retriever.invoke(prompt).  The compression retriever calls the reranker
\* only on a non-empty candidate list; the reranker keeps the top_n most
\* relevant candidates, or raises when the service rejects the call.
invoke(r, q, searchOK, rerankOK) ==
    LET base == BaseSearch(r, q, searchOK)
    IN  IF r.kind = "mmr" \/ ~base.ok \/ base.docs = <<>> THEN base
        ELSE IF ~rerankOK
        THEN [ok |-> FALSE, docs |-> <<>>, exc |-> RerankError]
        ELSE [ok |-> TRUE,
              docs |-> Take(SortedBy(RerankOrder(q), base.docs), r.top_n),
              exc |-> NoExc]

\* The credential retriever.invoke(prompt) calls the reranker with: the one
\* the retriever was built with; NoKey when the reranker is not called.
RerankCredential(r, q, searchOK) ==
    LET base == BaseSearch(r, q, searchOK)
    IN  IF r.kind = "mmr" \/ ~base.ok \/ base.docs = <<>> THEN NoKey ELSE r.key

SourceOf(doc) == IF doc.source = NoSource THEN "Unknown" ELSE doc.source

RECURSIVE JoinBlankLine(_)
JoinBlankLine(ss) ==
    IF ss = <<>> THEN ""
    ELSE IF Len(ss) = 1 THEN ss[1]
    ELSE ss[1] \o "\n\n" \o JoinBlankLine(Tail(ss))

format_docs_for_context(ds) ==
    JoinBlankLine([i \in 1..Len(ds) |->
        "[Source: " \o SourceOf(ds[i]) \o "]\n" \o ds[i].content])

\* -------------------------------------------------- src/src/chat.py

NoDocsMessage ==
    "I don't have any documents to answer your question. Please upload some documents first!"

LlmFailure == "<llm failure>"

\* What the language model answers a question with: external and opaque.
Reply(q) == "reply to " \o q

convert_messages_to_langchain(msgs) ==
    LET kept == SelectSeq(msgs, LAMBDA m : m.role \in {"user", "assistant"})
    IN  [i \in 1..Len(kept) |->
            [type |-> IF kept[i].role = "user" THEN "human" ELSE "ai",
             content |-> kept[i].content]]

\* Mutant: the whole history, the just-asked question included.
AllButLast_Whole(s) == s

\* session_messages[:-1]
AllButLast(s) == IF s = <<>> THEN <<>> ELSE SubSeq(s, 1, Len(s) - 1)

\* The messages the chain's prompt template hands to the model.
create_conversational_chain(relevant_docs, chat_history, question) ==
    <<[type |-> "system",
       content |-> "Context from documents:\n"
                       \o format_docs_for_context(relevant_docs)]>>
        \o chat_history
        \o <<[type |-> "human", content |-> question]>>

\* Mutant: a chunk that repeats the one before it is listed once.
Sources_Deduplicated(relevant_docs) ==
    LET first == SelectSeq([i \in 1..Len(relevant_docs) |-> i],
                      LAMBDA i : i = 1 \/ relevant_docs[i] # relevant_docs[i - 1])
    IN  [j \in 1..Len(first) |->
            [source |-> SourceOf(relevant_docs[first[j]]),
             content |-> relevant_docs[first[j]].content]]

Sources(relevant_docs) ==
    [i \in 1..Len(relevant_docs) |->
        [source |-> SourceOf(relevant_docs[i]),
         content |-> relevant_docs[i].content]]

\* generate_response past the check for documents: get_llm(), the chain
\* over the history without its last entry, the model's answer (llmOut, or
\* LlmFailure when the call raises) and the sources.
Generated(ss, q, relevant_docs, session_messages, llmOut) ==
    LET api_key == get_api_key(ss, "OPENAI_API_KEY")
        chat_history == convert_messages_to_langchain(AllButLast(session_messages))
        input == create_conversational_chain(relevant_docs, chat_history, q)
    IN  IF ~api_key.ok
        THEN [ok |-> FALSE, response |-> "", sources |-> <<>>,
              llm |-> "no credential", input |-> NoPrompt, exc |-> api_key.exc,
              key |-> NoKey]
        ELSE IF llmOut = LlmFailure
        THEN [ok |-> FALSE, response |-> "", sources |-> <<>>,
              llm |-> "invoked", input |-> input,
              exc |-> Exc("APIError", "llm request failed"),
              key |-> api_key.value]
        ELSE [ok |-> TRUE, response |-> llmOut, sources |-> Sources(relevant_docs),
              llm |-> "invoked", input |-> input, exc |-> NoExc,
              key |-> api_key.value]

\* Mutant: no check for documents before the model is obtained.
generate_response_Unchecked(ss, q, relevant_docs, session_messages, llmOut) ==
    Generated(ss, q, relevant_docs, session_messages, llmOut)

\* generate_response(prompt, relevant_docs, session_messages)
generate_response(ss, q, relevant_docs, session_messages, llmOut) ==
    IF relevant_docs = <<>>
    THEN [ok |-> TRUE, response |-> NoDocsMessage, sources |-> <<>>,
          llm |-> "untouched", input |-> NoPrompt, exc |-> NoExc,
          key |-> NoKey]
    ELSE Generated(ss, q, relevant_docs, session_messages, llmOut)

\* -------------------------------------------------- the script, per session

Init ==
    /\ pgConn \in BOOLEAN
    /\ env \in [KeyNames -> {NoKey, EnvKey}]
    /\ tableExists \in BOOLEAN
    /\ rows = <<>>
    /\ cache = NoHandle
    /\ lock = ""
    /\ nextId = 0
    /\ session_state = [p \in Sessions |-> [k \in KeyNames |-> NoKey]]
    /\ messages = [p \in Sessions |-> <<>>]
    /\ processed_sources = [p \in Sessions |-> {}]
    /\ pc = [p \in Sessions |-> "idle"]
    /\ op = [p \in Sessions |-> "none"]
    /\ vector_store = [p \in Sessions |-> NoHandle]
    /\ docs = [p \in Sessions |-> <<>>]
    /\ prompt = [p \in Sessions |-> ""]
    /\ result = [p \in Sessions |-> NoResult]
    /\ undisturbed = {}
    /\ ops = 0
    /\ call = NoCall

\* A handler of session p starts: the script run leaves "idle".
Begin(p, o, step, ds, q) ==
    /\ pc[p] = "idle"
    /\ pc' = [pc EXCEPT ![p] = step]
    /\ op' = [op EXCEPT ![p] = o]
    /\ docs' = [docs EXCEPT ![p] = ds]
    /\ prompt' = [prompt EXCEPT ![p] = q]
    /\ result' = [result EXCEPT ![p] = NoResult]
    /\ UNCHANGED vector_store

\* The handler of session p returns or raises: back to "idle", locals gone.
End(p, r) ==
    /\ pc' = [pc EXCEPT ![p] = "idle"]
    /\ op' = [op EXCEPT ![p] = "none"]
    /\ result' = [result EXCEPT ![p] = r]
    /\ vector_store' = [vector_store EXCEPT ![p] = NoHandle]
    /\ docs' = [docs EXCEPT ![p] = <<>>]
    /\ prompt' = [prompt EXCEPT ![p] = ""]

Outcome(p, status, e, w, llm, input, keys) ==
    [op |-> op[p], status |-> status, exc |-> e, warned |-> w, llm |-> llm,
     input |-> input, handles |-> nextId, keys |-> keys,
     drop |-> "none", cleared |-> 0]

UserMessage(q) == [role |-> "user", content |-> q, sources |-> <<>>]

AssistantMessage(text, sources) ==
    [role |-> "assistant", content |-> text, sources |-> sources]

\* Mutant: the error is kept as a message of the system, not the assistant.
ErrorMessage_SystemRole(e) ==
    [role |-> "system", content |-> "Sorry, I encountered an error: " \o e.msg,
     sources |-> <<>>]

\* error_msg = f"Sorry, I encountered an error: {str(e)}"
ErrorMessage(e) ==
    AssistantMessage("Sorry, I encountered an error: " \o e.msg, <<>>)

\* Mutant: the turn catches ConnectionError alone.
Caught_ConnectionErrorOnly(o, e) == o = "turn" /\ e.type = "ConnectionError"

\* Whether the exception e, raised in the handler o, is caught by the turn's
\* "except Exception"; the document-management handlers catch nothing.
Caught(o, e) == o = "turn"

\* An exception e leaves the handler of session p.  In a chat turn it is
\* caught at the turn boundary and becomes the assistant message of the
\* turn; elsewhere it ends the script run.
Raise(p, e, w, llm, input, keys) ==
    /\ End(p, Outcome(p, "error", e, w, llm, input, keys))
    /\ messages' = IF Caught(op[p], e)
                   THEN [messages EXCEPT ![p] = Append(@, ErrorMessage(e))]
                   ELSE messages

\* render_settings_panel: a key typed into the panel overrides the
\* environment for the session; an empty input leaves the override as it is.
SetKey(p, k) ==
    /\ pc[p] = "idle"
    /\ session_state[p][k] = NoKey
    /\ ops < MaxOps
    /\ ops' = ops + 1
    /\ session_state' = [session_state EXCEPT ![p][k] = SessionKey(p)]
    /\ result' = [result EXCEPT ![p] =
           [NoResult EXCEPT !.op = "set_key", !.status = "ok"]]
    /\ UNCHANGED <<config, store, shared, messages, processed_sources, pc, op,
                   locals, undisturbed>>

\* render_settings_panel: the settings of a run.
Settings(p) ==
    LET hasCohere == session_state[p]["COHERE_API_KEY"] # NoKey
                         \/ env["COHERE_API_KEY"] # NoKey
    IN  { s \in [use_reranking : BOOLEAN,
                 top_n : TopNMin..(TopNMin + TopNSpan),
                 initial_k : {InitialKMin} \cup (TopNMin..(TopNMin + TopNSpan))] :
            IF s.use_reranking /\ hasCohere
            THEN s.initial_k = InitialKMin
            ELSE s.initial_k = s.top_n }

\* -------------------------------------------------- src/src/vector_store.py

AlreadyExists == Exc("DuplicateTable", "relation vectorstore already exists")

\* Where the caller of get_vector_store goes on with the handle.
AfterGet(o) == IF o = "turn" THEN "retrieve" ELSE "add_documents"

\* Mutant: get_vector_store is not cached.
CacheLookup_Uncached == NoHandle

\* What st.cache_resource answers a call of get_vector_store with: the
\* cached handle, or NoHandle when the body has to run.
CacheLookup == cache

\* get_vector_store(), cache hit: the cached handle, the body does not run.
GetCached(p) ==
    /\ pc[p] = "get"
    /\ CacheLookup # NoHandle
    /\ vector_store' = [vector_store EXCEPT ![p] = CacheLookup]
    /\ pc' = [pc EXCEPT ![p] = AfterGet(op[p])]
    /\ UNCHANGED <<config, store, shared, session_state, messages,
                   processed_sources, op, docs, prompt, result,
                   undisturbed, ops>>

\* get_vector_store(), cache miss, first half of the body, under the cache's
\* compute lock: the connection-string check and init_vectorstore_table,
\* whose "already exists" error is swallowed.
GetInit(p, dbOK) ==
    /\ pc[p] = "get"
    /\ CacheLookup = NoHandle
    /\ lock = ""
    /\ nextId < MaxHandles
    /\ IF ~pgConn
       THEN /\ Raise(p, Exc("ValueError",
                      "PG_CONNECTION_STRING environment variable is not set"),
                     FALSE, "untouched", NoPrompt, NoKeys)
            /\ UNCHANGED <<store, shared>>
       ELSE IF ~dbOK
       THEN /\ Raise(p, Wrapped("Failed to initialize vector store", DbError),
                     FALSE, "untouched", NoPrompt, NoKeys)
            /\ UNCHANGED <<store, shared>>
       ELSE /\ tableExists' = TRUE
            /\ rows' = IF tableExists THEN rows ELSE <<>>
            /\ lock' = p
            /\ pc' = [pc EXCEPT ![p] = "get_create"]
            /\ UNCHANGED <<cache, nextId, messages, op, locals, result>>
    /\ UNCHANGED <<config, session_state, processed_sources, undisturbed,
                   ops>>

\* The handle PGVectorStore.create_sync builds: it names the table and holds
\* the embedding service made with the key resolved now.
NewHandle(key) == [id |-> nextId + 1, key |-> key]

\* get_vector_store(), cache miss, second half: get_embedding() and
\* PGVectorStore.create_sync, then the cache keeps the handle.
GetCreate(p) ==
    /\ pc[p] = "get_create"
    /\ lock' = ""
    /\ LET api_key == get_api_key(session_state[p], "OPENAI_API_KEY")
           failure == IF ~api_key.ok THEN api_key.exc
                      ELSE IF ~tableExists
                      THEN Exc("ValueError", "Table vectorstore does not exist")
                      ELSE NoExc
       IN  IF failure # NoExc
           THEN /\ Raise(p, Wrapped("Failed to initialize vector store", failure),
                         FALSE, "untouched", NoPrompt, NoKeys)
                /\ UNCHANGED <<cache, nextId>>
           ELSE /\ cache' = NewHandle(api_key.value)
                /\ nextId' = nextId + 1
                /\ vector_store' = [vector_store EXCEPT ![p] = cache']
                /\ pc' = [pc EXCEPT ![p] = AfterGet(op[p])]
                /\ UNCHANGED <<messages, op, docs, prompt, result>>
    /\ UNCHANGED <<config, store, session_state, processed_sources,
                   undisturbed, ops>>

\* Rows that adds already started may still insert.
Pending == LET Add(p) == IF op[p] = "add" THEN Len(docs[p]) ELSE 0
           IN  Add("s1") + Add("s2")

StartAdd(p, o, batch) ==
    /\ ops < MaxOps
    /\ Len(rows) + Pending + Len(batch) <= MaxRows
    /\ Begin(p, o, "get", batch, "")
    /\ ops' = ops + 1
    /\ UNCHANGED <<config, store, shared, session_state, messages,
                   processed_sources, undisturbed>>

\* "Process & Store Files": process_uploaded_files, split_docs, then
\* add_documents_to_store(docs).
ProcessFiles(p) == StartAdd(p, "add", <<cA>>)

\* "Process & Store URL": process_urls, split_docs, then
\* add_documents_to_store(docs); an empty result is reported and nothing is
\* stored.
ProcessURL(p, fetched) ==
    IF fetched
    THEN StartAdd(p, "add", <<cU>>)
    ELSE /\ ops < MaxOps
         /\ pc[p] = "idle"
         /\ result' = [result EXCEPT ![p] =
                [NoResult EXCEPT !.op = "add", !.status = "failed"]]
         /\ ops' = ops + 1
         /\ UNCHANGED <<config, store, shared, session_state, messages,
                        processed_sources, pc, op, locals, undisturbed>>

\* What vector_store.add_documents(docs) leaves in the table.
Inserted(table, ds) == table \o ds

\* vector_store.add_documents(docs) through the handle obtained before, then
\* the caller's bookkeeping.
AddDocuments(p, dbOK) ==
    /\ pc[p] = "add_documents"
    /\ LET failure == IF ~dbOK THEN DbError
                      ELSE IF ~tableExists THEN MissingTable
                      ELSE NoExc
       IN  IF failure # NoExc
           THEN /\ Raise(p, failure, FALSE, "untouched", NoPrompt,
                         [NoKeys EXCEPT !.embed = vector_store[p].key])
                /\ UNCHANGED <<store, processed_sources, undisturbed>>
           ELSE /\ rows' = Inserted(rows, docs[p])
                /\ undisturbed' = {}
                /\ processed_sources' =
                       [processed_sources EXCEPT ![p] =
                           @ \cup {SourceOf(docs[p][i]) : i \in 1..Len(docs[p])}]
                /\ End(p, Outcome(p, "ok", NoExc, FALSE, "untouched", NoPrompt,
                                  [NoKeys EXCEPT !.embed = vector_store[p].key]))
                /\ UNCHANGED <<tableExists, messages>>
    /\ UNCHANGED <<config, shared, session_state, ops>>

\* What engine.drop_table leaves of the table: nothing when it succeeds.
Dropped(exists, dropOK) == exists /\ ~dropOK

\* How engine.drop_table ended: it dropped the table, found none to drop, or
\* failed for a reason other than a missing table.
DropOutcome(exists, dropOK) ==
    IF ~dropOK THEN "failed" ELSE IF exists THEN "dropped" ELSE "missing"

\* "Clear All Documents": clear_vector_store(), up to drop_table, every
\* exception of which is swallowed (the table may be missing, or the drop may
\* have failed).
ClearDrop(p, dropOK) ==
    /\ ops < MaxOps
    /\ ops' = ops + 1
    /\ IF ~pgConn
       THEN /\ pc[p] = "idle"
            /\ result' = [result EXCEPT ![p] =
                   [NoResult EXCEPT
                       !.op = "clear", !.status = "error",
                       !.exc = Wrapped("Failed to clear vector store",
                           Exc("ArgumentError", "could not parse connection string"))]]
            /\ UNCHANGED <<store, undisturbed, pc, op, locals>>
       ELSE /\ pc[p] = "idle"
            /\ pc' = [pc EXCEPT ![p] = "clear_init"]
            /\ op' = [op EXCEPT ![p] = "clear"]
            /\ result' = [result EXCEPT ![p] =
                   [NoResult EXCEPT !.drop = DropOutcome(tableExists, dropOK)]]
            /\ UNCHANGED locals
            /\ tableExists' = Dropped(tableExists, dropOK)
            /\ rows' = IF tableExists' THEN rows ELSE <<>>
            /\ undisturbed' = IF tableExists /\ ~tableExists'
                              THEN {p} ELSE undisturbed \cup {p}
    /\ UNCHANGED <<config, shared, session_state, messages, processed_sources>>

\* clear_vector_store(): init_vectorstore_table; any exception is wrapped.
ClearInit(p, dbOK) ==
    /\ pc[p] = "clear_init"
    /\ LET failure == IF ~dbOK THEN DbError
                      ELSE IF tableExists THEN AlreadyExists
                      ELSE NoExc
       IN  IF failure # NoExc
           THEN /\ Raise(p, Wrapped("Failed to clear vector store", failure),
                         FALSE, "untouched", NoPrompt, NoKeys)
                /\ UNCHANGED <<store>>
           ELSE /\ tableExists' = TRUE
                /\ rows' = <<>>
                /\ pc' = [pc EXCEPT ![p] = "clear_cache"]
                /\ UNCHANGED <<messages, op, locals, result>>
    /\ UNCHANGED <<config, shared, session_state, processed_sources,
                   undisturbed, ops>>

\* Mutant: the clear leaves the cache as it is.
Invalidated_Kept(c) == c

\* What st.cache_resource.clear() leaves in the cache.
Invalidated(c) == NoHandle

\* clear_vector_store(): st.cache_resource.clear() and return; then the
\* caller forgets the processed sources.
ClearCache(p) ==
    /\ pc[p] = "clear_cache"
    /\ cache' = Invalidated(cache)
    /\ processed_sources' = [processed_sources EXCEPT ![p] = {}]
    /\ End(p, Outcome(p, "ok", NoExc, FALSE, "untouched", NoPrompt, NoKeys))
    /\ UNCHANGED <<config, store, lock, nextId, session_state, messages,
                   undisturbed, ops>>

\* Mutant: the button takes back the last message only.
EmptyHistory_DropLast(msgs) == AllButLast(msgs)

\* st.session_state.messages = []
EmptyHistory(msgs) == <<>>

\* "Clear Chat History": the session's history is replaced by an empty one.
ClearChatHistory(p) ==
    /\ pc[p] = "idle"
    /\ ops < MaxOps
    /\ ops' = ops + 1
    /\ messages' = [messages EXCEPT ![p] = EmptyHistory(@)]
    /\ result' = [result EXCEPT ![p] =
           [NoResult EXCEPT !.op = "clear_chat", !.status = "ok",
                            !.cleared = Len(messages[p])]]
    /\ UNCHANGED <<config, store, shared, session_state, processed_sources,
                   pc, op, locals, undisturbed>>

\* -------------------------------------------------- src/app.py

\* The chat input of a run: the question joins the history, and the turn
\* goes on to get the vector store.
ChatInput(p, q) ==
    /\ ops < MaxOps
    /\ Begin(p, "turn", "get", <<>>, q)
    /\ messages' = [messages EXCEPT ![p] = Append(@, UserMessage(q))]
    /\ ops' = ops + 1
    /\ UNCHANGED <<config, store, shared, session_state, processed_sources,
                   undisturbed>>

\* The rest of the turn: get_retriever(vector_store, **settings),
\* retriever.invoke(prompt), generate_response(prompt, relevant_docs,
\* st.session_state.messages), then the reply and its sources join the
\* history.  Only the search reads shared state, so the rest of the turn is
\* one step with it.
Answer(p, s, fault) ==
    /\ pc[p] = "retrieve"
    /\ LET searchOK == fault # "search"
           rerankOK == fault # "rerank"
           llmOut == IF fault = "llm" THEN LlmFailure ELSE Reply(prompt[p])
           got == get_retriever(session_state[p], vector_store[p],
                                s.use_reranking, s.top_n, s.initial_k)
           found == invoke(got.retriever, prompt[p], searchOK, rerankOK)
           g == generate_response(session_state[p], prompt[p], found.docs,
                                  messages[p], llmOut)
           searched == [embed |-> vector_store[p].key, llm |-> NoKey,
                        rerank |-> RerankCredential(got.retriever, prompt[p],
                                                    searchOK)]
           keys == [searched EXCEPT !.llm = g.key]
       IN  IF ~found.ok
           THEN Raise(p, found.exc, got.warning, "untouched", NoPrompt, searched)
           ELSE IF ~g.ok
           THEN Raise(p, g.exc, got.warning, g.llm, g.input, keys)
           ELSE /\ messages' = [messages EXCEPT ![p] =
                       Append(@, AssistantMessage(g.response, g.sources))]
                /\ End(p, Outcome(p, "ok", NoExc, got.warning, g.llm, g.input,
                                  keys))
    /\ UNCHANGED <<config, store, shared, session_state, processed_sources,
                   undisturbed, ops>>

Step(p) ==
    \/ \E k \in KeyNames : SetKey(p, k)
    \/ \E q \in Queries : ChatInput(p, q)
    \/ GetCached(p)
    \/ \E dbOK \in BOOLEAN : GetInit(p, dbOK)
    \/ GetCreate(p)
    \/ pc[p] = "retrieve"
           /\ \E s \in Settings(p), fault \in Faults : Answer(p, s, fault)
    \/ ProcessFiles(p)
    \/ \E fetched \in BOOLEAN : ProcessURL(p, fetched)
    \/ \E dbOK \in BOOLEAN : AddDocuments(p, dbOK)
    \/ \E dropOK \in BOOLEAN : ClearDrop(p, dropOK)
    \/ \E dbOK \in BOOLEAN : ClearInit(p, dbOK)
    \/ ClearCache(p)
    \/ ClearChatHistory(p)

Next == \E p \in Sessions : Step(p)

Spec == Init /\ [][Next]_vars

\* ------------------------------------------ the functions, called directly

Chunks == {cA, cU, cN}

Tables == UNION {[1..n -> Chunks] : n \in 0..MaxRows}

\* Histories a session can have when a question arrives.
Histories ==
    { <<>>,
      <<UserMessage("q1"), AssistantMessage(Reply("q1"), Sources(<<cA>>))>>,
      <<UserMessage("q2"), ErrorMessage(DbError)>> }

\* A database that holds any table, any credentials in the environment, a
\* session without overrides.
InitFn ==
    /\ pgConn = TRUE
    /\ env \in [KeyNames -> {NoKey, EnvKey}]
    /\ tableExists = TRUE
    /\ rows \in Tables
    /\ cache = NoHandle
    /\ lock = ""
    /\ nextId = 0
    /\ session_state = [p \in Sessions |-> [k \in KeyNames |-> NoKey]]
    /\ messages = [p \in Sessions |-> <<>>]
    /\ processed_sources = [p \in Sessions |-> {}]
    /\ pc = [p \in Sessions |-> "idle"]
    /\ op = [p \in Sessions |-> "none"]
    /\ vector_store = [p \in Sessions |-> NoHandle]
    /\ docs = [p \in Sessions |-> <<>>]
    /\ prompt = [p \in Sessions |-> ""]
    /\ result = [p \in Sessions |-> NoResult]
    /\ undisturbed = {}
    /\ ops = 0
    /\ call = NoCall

\* process_data.store_docs(docs), which no handler of the application calls:
\* get_vector_store(), then vector_store.add_documents(docs), for documents
\* that carry no source.
StoreDocs(ds) ==
    /\ call = NoCall
    /\ Len(rows) + Len(ds) <= MaxRows
    /\ LET api_key == get_api_key(session_state["s1"], "OPENAI_API_KEY")
       IN  IF CacheLookup = NoHandle /\ ~api_key.ok
           THEN /\ call' = [fn |-> "store_docs", docs |-> ds,
                            out |-> [ok |-> FALSE,
                                     exc |-> Wrapped("Failed to initialize vector store",
                                                     api_key.exc)]]
                /\ UNCHANGED <<store, shared>>
           ELSE /\ cache' = IF CacheLookup # NoHandle THEN CacheLookup
                            ELSE NewHandle(api_key.value)
                /\ nextId' = cache'.id
                /\ rows' = Inserted(rows, ds)
                /\ UNCHANGED <<tableExists, lock, call>>
    /\ UNCHANGED <<pgConn, env, session_state, messages, processed_sources,
                   pc, op, locals, result, undisturbed, ops>>

\* get_retriever(vector_store, use_reranking, top_n, initial_k).invoke(q)
CallRetrieve(q, use_reranking, top_n, initial_k, fault) ==
    /\ call = NoCall
    /\ LET got == get_retriever(session_state["s1"], NewHandle(EnvKey),
                                use_reranking, top_n, initial_k)
           found == invoke(got.retriever, q, fault # "search", fault # "rerank")
       IN  call' = [fn |-> "retrieve", q |-> q, use_reranking |-> use_reranking,
                    top_n |-> top_n, initial_k |-> initial_k, fault |-> fault,
                    warning |-> got.warning, out |-> found]
    /\ UNCHANGED <<pgConn, env, store, shared, session_state, messages,
                   processed_sources, pc, op, locals, result, undisturbed, ops>>

\* generate_response(q, relevant_docs, history + [question]) on what the
\* retrieval before returned.
CallGenerate(history, fault) ==
    /\ call.fn = "retrieve"
    /\ call.out.ok
    /\ LET session_messages == Append(history, UserMessage(call.q))
           llmOut == IF fault = "llm" THEN LlmFailure ELSE Reply(call.q)
       IN  call' = [fn |-> "generate", q |-> call.q,
                    relevant_docs |-> call.out.docs,
                    session_messages |-> session_messages, fault |-> fault,
                    out |-> generate_response(session_state["s1"], call.q,
                               call.out.docs, session_messages, llmOut)]
    /\ UNCHANGED <<pgConn, env, store, shared, session_state, messages,
                   processed_sources, pc, op, locals, result, undisturbed, ops>>

NextFn ==
    \/ StoreDocs(<<cN>>)
    \/ \E q \in Queries, use_reranking \in BOOLEAN, top_n \in 1..MaxRows,
          initial_k \in 1..MaxRows, fault \in {"none", "search", "rerank"} :
           CallRetrieve(q, use_reranking, top_n, initial_k, fault)
    \/ \E history \in Histories, fault \in {"none", "llm"} :
           CallGenerate(history, fault)

SpecFn == InitFn /\ [][NextFn]_vars

\* ------------------------------------------------------------------ claims

\* C1 (as claimed): while a clear and an add of two sessions run, the cache
\* never holds a handle whose table is dropped, and no add is performed on a
\* dropped table.
C1_NoHandleOnDroppedTable ==
    /\ \A p, q \in Sessions :
           op[p] = "clear" /\ op[q] = "add" => (cache # NoHandle => tableExists)
    /\ \A q \in Sessions :
           ~(result[q].op = "add" /\ result[q].exc = MissingTable)

\* C2: once clear_vector_store has returned successfully, the cache is empty
\* or holds a handle built after the clear; and as long as nothing was written
\* to the table since the clear dropped it (no add, no other clear), the
\* table exists and a similarity search, for any query, returns no result.
C2_ClearInvalidatesAndEmpties ==
    \A p \in Sessions :
        result[p].op = "clear" /\ result[p].status = "ok" =>
            /\ cache = NoHandle \/ cache.id > result[p].handles
            /\ p \in undisturbed =>
                   \A q \in Queries :
                       LET found == BaseSearch(MmrRetriever(cache, TopNMin), q, TRUE)
                       IN  found.ok /\ found.docs = <<>>

\* C2 witness: a session stored documents, another cleared the store, and a
\* turn after the clear built a fresh handle and found no documents.
C2_Witness ==
    \E p, q \in Sessions :
        /\ result[p].op = "clear" /\ result[p].status = "ok"
        /\ p \in undisturbed
        /\ result[q].op = "turn" /\ result[q].status = "ok"
        /\ messages[q][Len(messages[q])].content = NoDocsMessage
        /\ cache.id > result[p].handles
        /\ cache.id > 1

\* C3: a call of get_vector_store that finds a handle cached returns it,
\* leaves the cache alone, runs no table initialization and creates nothing;
\* a call that finds none returns only after table initialization and puts
\* the handle it created into the cache; a cached handle is replaced by
\* nothing but the clear's invalidation.
C3_SharedLazyHandle ==
    [][ /\ \A p \in Sessions :
             /\ pc[p] = "get" /\ pc'[p] # "get" /\ cache # NoHandle =>
                    /\ pc'[p] = AfterGet(op[p])
                    /\ vector_store'[p] = cache
                    /\ UNCHANGED <<cache, nextId, tableExists, rows>>
             /\ pc[p] \in {"get", "get_create"} /\ pc'[p] = AfterGet(op[p])
                    /\ cache = NoHandle =>
                    /\ pc[p] = "get_create"
                    /\ tableExists
                    /\ cache' = [id |-> nextId + 1, key |-> cache'.key]
                    /\ nextId' = nextId + 1
                    /\ vector_store'[p] = cache'
        /\ cache # NoHandle /\ cache' # cache =>
               /\ cache' = NoHandle
               /\ \E p \in Sessions : pc[p] = "clear_cache" /\ pc'[p] = "idle"
      ]_vars

\* C3 witness: a chat turn and an add of two sessions hold the same handle.
C3_Witness ==
    \E p, q \in Sessions :
        /\ op[p] = "turn" /\ pc[p] = "retrieve"
        /\ op[q] = "add" /\ pc[q] = "add_documents"
        /\ vector_store[p] = vector_store[q]
        /\ vector_store[p] # NoHandle

\* C4: generate_response on an empty relevant_docs returns the fixed message
\* and no sources, whatever the query, the history and the credentials, and
\* neither resolves the model's credential nor calls the model.
C4_EmptyDocsShortCircuit ==
    call.fn = "generate" /\ call.relevant_docs = <<>> =>
        /\ call.out.ok
        /\ call.out.response = NoDocsMessage
        /\ call.out.sources = <<>>
        /\ call.out.llm = "untouched"

\* C4 witness: such a call with a history, no credential for the model
\* anywhere and a model that would fail.
C4_Witness ==
    /\ call.fn = "generate" /\ call.relevant_docs = <<>>
    /\ Len(call.session_messages) > 1
    /\ env["OPENAI_API_KEY"] = NoKey
    /\ session_state["s1"]["OPENAI_API_KEY"] = NoKey
    /\ call.fault = "llm"

Role(type) == IF type = "human" THEN "user" ELSE "assistant"

\* C5: what a chat turn with retrieved documents gives the model is the
\* system message, then the history before the turn, message by message in
\* order (role and content), then the turn's question, once.
C5_PromptCarriesHistoryThenQuestion ==
    \A p \in Sessions :
        result[p].op = "turn" /\ result[p].llm = "invoked" =>
            LET input == result[p].input
                n == Len(messages[p])
                prior == SubSeq(messages[p], 1, n - 2)
                question == messages[p][n - 1]
            IN  /\ n >= 2
                /\ Len(input) = Len(prior) + 2
                /\ input[1].type = "system"
                /\ \A i \in 1..Len(prior) :
                       /\ Role(input[i + 1].type) = prior[i].role
                       /\ input[i + 1].content = prior[i].content
                /\ question.role = "user"
                /\ input[Len(input)] = [type |-> "human", content |-> question.content]

\* C5 witness: a turn that reached the model with an earlier exchange, on
\* another question, in the history.
C5_Witness ==
    \E p \in Sessions :
        /\ result[p].op = "turn" /\ result[p].status = "ok"
        /\ result[p].llm = "invoked"
        /\ Len(messages[p]) = 4
        /\ messages[p][1].content # messages[p][3].content

\* C6: the sources generate_response returns for a non-empty relevant_docs
\* are one per chunk, in the chunks' order, duplicates kept: the chunk's
\* source, or "Unknown" when it has none, and the chunk's content.
C6_SourcesMirrorChunks ==
    call.fn = "generate" /\ call.relevant_docs # <<>> /\ call.out.ok =>
        /\ Len(call.out.sources) = Len(call.relevant_docs)
        /\ \A i \in 1..Len(call.relevant_docs) :
               /\ call.out.sources[i].content = call.relevant_docs[i].content
               /\ call.out.sources[i].source =
                      IF call.relevant_docs[i].source = NoSource THEN "Unknown"
                      ELSE call.relevant_docs[i].source

\* C6 witness: the same chunk twice among the documents, and a chunk without
\* a source.
C6_Witness ==
    /\ call.fn = "generate" /\ call.out.ok
    /\ Len(call.relevant_docs) = 3
    /\ call.relevant_docs[1] = call.relevant_docs[2]
    /\ \E i \in 1..3 : call.relevant_docs[i] = cN

Count(c, ds) == Len(SelectSeq(ds, LAMBDA d : d = c))

\* The k best rows of the table for q: what a search for k results returns.
Search(q, k) == Take(SortedBy(SearchOrder(q), rows), k)

CohereKeySet ==
    session_state["s1"]["COHERE_API_KEY"] # NoKey \/ env["COHERE_API_KEY"] # NoKey

\* C7: retrieval returns at most top_n chunks; without reranking, exactly
\* what one search for top_n results returns; with reranking and a
\* credential, only chunks among the initial_k the base search returns (none
\* more often than there).
C7_AtMostTopN ==
    call.fn = "retrieve" /\ call.out.ok =>
        /\ Len(call.out.docs) <= call.top_n
        /\ ~call.use_reranking => call.out.docs = Search(call.q, call.top_n)
        /\ call.use_reranking /\ CohereKeySet =>
               \A c \in Chunks :
                   Count(c, call.out.docs) <= Count(c, Search(call.q, call.initial_k))

\* C7 witness: reranking cut the candidates down to top_n, and the base
\* search had cut the table down to initial_k.
C7_Witness ==
    /\ call.fn = "retrieve" /\ call.out.ok
    /\ call.use_reranking /\ CohereKeySet
    /\ Len(call.out.docs) = call.top_n
    /\ call.top_n < call.initial_k
    /\ call.initial_k < Len(rows)
    /\ call.out.docs # Search(call.q, call.top_n)

\* C8: with reranking requested and no reranking credential in the session
\* or the environment, retrieval returns what the non-reranking retrieval
\* returns for the query and top_n, whatever initial_k is, and the warning
\* is shown.
C8_NoCredentialFallsBack ==
    call.fn = "retrieve" /\ call.use_reranking /\ ~CohereKeySet =>
        /\ call.warning
        /\ call.out =
               invoke(get_retriever(session_state["s1"], NewHandle(EnvKey), FALSE,
                                    call.top_n, call.top_n).retriever,
                      call.q, call.fault # "search", TRUE)

\* C8 witness: such a retrieval with initial_k other than top_n, on a table
\* where a search for initial_k results returns something else.
C8_Witness ==
    /\ call.fn = "retrieve" /\ call.use_reranking /\ ~CohereKeySet
    /\ call.out.ok
    /\ call.initial_k # call.top_n
    /\ Search(call.q, call.initial_k) # Search(call.q, call.top_n)
    /\ call.fault = "rerank"

\* C9 (as claimed): a reranking call that fails does not fail the turn: no
\* turn ends with the reranker's error.
C9_RerankFailureFallsBack ==
    \A p \in Sessions :
        ~(result[p].op = "turn" /\ result[p].status = "error"
              /\ result[p].exc = RerankError)

\* C9 (amended): retrieval falls back to the non-reranking path, with the
\* warning, only when no reranking credential is set; with a credential, a
\* failure of the reranking call is not caught by the retrieval: it ends the
\* turn at the turn boundary, without the warning, as the error message of
\* the turn, and the session goes on.
C9_RerankFailureEndsTurn ==
    \A p \in Sessions :
        result[p].op = "turn" =>
            /\ result[p].warned =>
                   /\ session_state[p]["COHERE_API_KEY"] = NoKey
                   /\ env["COHERE_API_KEY"] = NoKey
            /\ result[p].exc = RerankError =>
                   /\ result[p].status = "error"
                   /\ ~result[p].warned
                   /\ result[p].llm = "untouched"
                   /\ messages[p][Len(messages[p])] = ErrorMessage(RerankError)
                   /\ pc[p] = "idle"

\* C9 witness: a turn that the reranker's failure ended.
C9_Witness ==
    \E p \in Sessions :
        /\ result[p].op = "turn"
        /\ result[p].exc = RerankError
        /\ messages[p][Len(messages[p])] = ErrorMessage(RerankError)

\* C10: however a chat turn ends, it ends at the turn boundary with exactly
\* one more message in the history, the assistant's; when the turn failed
\* (getting the vector store, retrieving, reranking or generating), that
\* message is the error message made from the exception, and the session is
\* idle again, ready for the next input.
C10_FailureBecomesAssistantMessage ==
    [][ \A p \in Sessions :
            op[p] = "turn" /\ op'[p] # "turn" =>
                /\ pc'[p] = "idle"
                /\ Len(messages'[p]) = Len(messages[p]) + 1
                /\ SubSeq(messages'[p], 1, Len(messages[p])) = messages[p]
                /\ messages'[p][Len(messages'[p])].role = "assistant"
                /\ result'[p].status \in {"ok", "error"}
                /\ result'[p].status = "error" =>
                       /\ result'[p].exc # NoExc
                       /\ messages'[p][Len(messages'[p])] = ErrorMessage(result'[p].exc)
      ]_vars

\* C10 witness: a turn failed getting the vector store, and the session took
\* the next question and answered it.
C10_Witness ==
    \E p \in Sessions :
        /\ Len(messages[p]) = 4
        /\ messages[p][2] =
               ErrorMessage(Wrapped("Failed to initialize vector store", DbError))
        /\ result[p].op = "turn" /\ result[p].status = "ok"

\* C11 (as claimed): every embedding, language-model and reranking call of a
\* handler uses the credential its session resolves at the time of the call
\* (the session's override when set, the environment's value otherwise), and
\* a handler whose session resolves no credential for the embeddings and the
\* language model does not succeed.
C11_CredentialResolvedAtCall ==
    \A p \in Sessions :
        result[p].op \in {"turn", "add"} /\ result[p].status \in {"ok", "error"} =>
            LET openai == get_api_key(session_state[p], "OPENAI_API_KEY")
                cohere == IF session_state[p]["COHERE_API_KEY"] # NoKey
                          THEN session_state[p]["COHERE_API_KEY"]
                          ELSE env["COHERE_API_KEY"]
                used == result[p].keys
            IN  /\ used.embed # NoKey => used.embed = openai.value
                /\ used.llm # NoKey => used.llm = openai.value
                /\ used.rerank # NoKey => used.rerank = cohere
                /\ ~openai.ok => result[p].status = "error"

\* C12 (as claimed): a clear whose drop failed for a reason other than a
\* missing table ends with a connection error; a clear that fails at all
\* fails with a connection error; a clear that succeeds dropped the table or
\* found none to drop.
C12_DropFailureSurfaces ==
    [][ \A p \in Sessions :
            /\ result'[p].op = "clear" =>
                   /\ result'[p].status \in {"ok", "error"}
                   /\ result'[p].status = "error" =>
                          result'[p].exc.type = "ConnectionError"
            /\ op[p] = "clear" /\ op'[p] # "clear" =>
                   /\ result[p].drop = "failed" => result'[p].status = "error"
                   /\ result'[p].status = "ok" =>
                          result[p].drop \in {"dropped", "missing"}
      ]_vars

\* Whether the history after extends the history before: every message
\* stays at its position with its content.
Extends(after, before) ==
    /\ Len(after) >= Len(before)
    /\ SubSeq(after, 1, Len(before)) = before

\* C13 (as claimed): no step of any handler, the utility buttons included,
\* removes or changes a message of a session's history.
C13_AppendOnly ==
    [][ \A p \in Sessions : Extends(messages'[p], messages[p]) ]_vars

\* C13 (amended): a session's history is append-only under chat turns,
\* document uploads, store clears and key inputs of any session; the one
\* step that takes messages away is the session's own "Clear Chat History",
\* which leaves the history empty.
C13_AppendOnlyUntilCleared ==
    [][ \A p \in Sessions :
            \/ Extends(messages'[p], messages[p])
            \/ /\ pc[p] = "idle" /\ pc'[p] = "idle"
               /\ result'[p].op = "clear_chat"
               /\ result'[p].cleared = Len(messages[p])
               /\ messages'[p] = <<>>
      ]_vars

\* C13 witness: a session cleared a history that held a whole turn, while the
\* other session's history, with a turn of its own, stayed.
C13_Witness ==
    \E p, q \in Sessions :
        /\ p # q
        /\ result[p].op = "clear_chat" /\ result[p].cleared >= 2
        /\ messages[p] = <<>>
        /\ Len(messages[q]) >= 2

\* Whether msgs alternates user, assistant, starting with user.
Alternates(msgs) ==
    \A i \in 1..Len(msgs) :
        msgs[i].role = IF i % 2 = 1 THEN "user" ELSE "assistant"

\* The history of session p as a turn leaves it or finds it: between turns
\* of even length, within a turn of odd length and ending with the turn's
\* question; alternating either way.
HistoryShape(msgs, o, q) ==
    /\ Alternates(msgs)
    /\ IF o = "turn"
       THEN /\ Len(msgs) % 2 = 1
            /\ msgs[Len(msgs)] = UserMessage(q)
       ELSE Len(msgs) % 2 = 0

\* C14: a chat turn starts by appending the user's question, appends nothing
\* more until it ends, and ends by appending one assistant message: the
\* reply and its sources, or the error message; so between turns the
\* history has even length and alternates user, assistant from the start,
\* and all through a turn (generate_response is called within it) the last
\* entry is the turn's question.
C14_TurnAppendsUserThenAssistant ==
    [][ \A p \in Sessions :
            /\ HistoryShape(messages'[p], op'[p], prompt'[p])
            /\ op[p] # "turn" /\ op'[p] = "turn" =>
                   messages'[p] = Append(messages[p], UserMessage(prompt'[p]))
            /\ op[p] = "turn" /\ op'[p] = "turn" => messages'[p] = messages[p]
            /\ op[p] = "turn" /\ op'[p] # "turn" =>
                   /\ Len(messages'[p]) = Len(messages[p]) + 1
                   /\ Extends(messages'[p], messages[p])
                   /\ LET last == messages'[p][Len(messages'[p])]
                      IN  IF result'[p].status = "ok"
                          THEN /\ last.role = "assistant"
                               /\ last.content \in {Reply(prompt[p]), NoDocsMessage}
                          ELSE last = AssistantMessage(
                                   "Sorry, I encountered an error: "
                                       \o result'[p].exc.msg, <<>>)
      ]_vars

\* C14 witness: a session within its second turn, about to call
\* generate_response, after a turn that was answered from the documents.
C14_Witness ==
    \E p \in Sessions :
        /\ op[p] = "turn" /\ pc[p] = "retrieve"
        /\ Len(messages[p]) = 3
        /\ messages[p][2].sources # <<>>
        /\ messages[p][3] = UserMessage(prompt[p])
        /\ rows # <<>>
====
